---------------------------- MODULE Spec2Model ----------------------------
(***************************************************************************)
(* Execution reconciliation and position rebuild of the trading backend    *)
(* (backend/app/services/bybit_sync.py, backend/app/services/positions.py, *)
(* backend/app/services/pnl.py, backend/app/main.py).                      *)
(*                                                                         *)
(* The store is three tables: executions (fills), positions and            *)
(* funding_events, for one bot and one symbol.  A row's id is its index in *)
(* the table.  Money is exact: stored prices, fees, funding and pnl of a   *)
(* Position are integers in units of 1/Scale, so every VWAP and every      *)
(* pro-rata fee of the bounded model is an exact quotient.                 *)
(***************************************************************************)
EXTENDS Integers, Sequences, FiniteSets, TLC

\* ---------------------------------------------------------------- bounds
MaxExecs   == 2      \* stored Execution rows
MaxPos     == 2      \* stored Position rows
MaxQty     == 2      \* largest fill quantity
MaxPrice   == 2      \* largest fill price
MaxTs      == 2      \* clock ticks (exchange timestamps are 1..now)
MaxFunding == 1      \* stored FundingEvent rows
MaxPartial == 3      \* stored Execution rows of the partial-fill scenario
MaxLongTs  == 3      \* clock ticks where a Position's lifetime has an interior
MaxRoundTripExecs == 4   \* stored Execution rows of two round trips

\* timedelta(days=14) of the rebuild's staleness cutoff, in clock ticks
StaleAfter == 1

\* ----------------------------------------------------------- arithmetic
RECURSIVE Gcd(_, _)
Gcd(a, b) == IF b = 0 THEN a ELSE Gcd(b, a % b)

RECURSIVE LcmUpTo(_)
LcmUpTo(n) == IF n <= 1 THEN 1 ELSE LET l == LcmUpTo(n - 1) IN (l * n) \div Gcd(l, n)

\* every sum of quantities of the model divides Scale
Scale == LcmUpTo(MaxExecs * MaxQty)

Abs(x) == IF x < 0 THEN 0 - x ELSE x

RECURSIVE Sum(_, _)
Sum(f, S) == IF S = {} THEN 0
             ELSE LET x == CHOOSE y \in S : TRUE IN f[x] + Sum(f, S \ {x})

Min(S) == CHOOSE x \in S : \A y \in S : x <= y
Max(S) == CHOOSE x \in S : \A y \in S : x >= y

\* a nullable column: <<>> is NULL/None, <<v>> a value
None      == <<>>
Some(v)   == <<v>>
IsNone(o) == o = <<>>
Val(o)    == o[1]
\* Python truthiness of an optional float: None and 0.0 are false
Truthy(o) == o # <<>> /\ o[1] # 0
\* Python's `a or b` on optional floats
OrElse(a, b) == IF Truthy(a) THEN a ELSE b

\* the element of a one-element set: {e(v) : v \in {x}} computes x once
TheOne(S) == CHOOSE x \in S : TRUE

\* ------------------------------------------------------------ the store
VARIABLES executions, positions, funding_events, now, outcome, sess, position_cache, fetch, last_sync_at

vars == <<executions, positions, funding_events, now, outcome, sess, position_cache, fetch, last_sync_at>>

Sides      == {"buy", "sell"}

\* ts.strftime("%H:%M") in ("00:00","08:00","16:00"): the ticks that fall on a
\* funding settlement time
IsFundingClock(ts) == ts % 2 = 0

\* rows of a table as a set of ids
Ids(tbl) == 1..Len(tbl)

\* the query without its is_consumed filter
UnconsumedUnfiltered(ex) == Ids(ex)

\* WHERE is_consumed = 0
Unconsumed(ex) == {i \in Ids(ex) : ~ex[i].is_consumed}

\* ORDER BY ts ASC, id ASC of a set of execution ids
RECURSIVE SortByTs(_, _)
SortByTs(ex, S) ==
    IF S = {} THEN <<>>
    ELSE LET m == CHOOSE i \in S : \A k \in S :
                      ex[i].ts < ex[k].ts \/ (ex[i].ts = ex[k].ts /\ i <= k)
         IN <<m>> \o SortByTs(ex, S \ {m})

QtyOf(ex, S)   == Sum([i \in S |-> ex[i].qty], S)
PxQtyOf(ex, S) == Sum([i \in S |-> ex[i].price * ex[i].qty], S)
FeeOf(ex, S)   == Sum([i \in S |-> ex[i].fee_usdt], S)

\* UPDATE executions SET is_consumed = 1 WHERE id IN S
MarkConsumed(ex, S) ==
    [i \in Ids(ex) |-> IF i \in S THEN [ex[i] EXCEPT !.is_consumed = TRUE] ELSE ex[i]]

OpenPositions(ps) == {p \in Ids(ps) : ps[p].status = "open"}

ClosedPositions(ps) == {p \in Ids(ps) : ps[p].status = "closed"}

\* the FundingEvent rows with ts in [a, b]
FundingRows(fe, a, b) == {k \in Ids(fe) : fe[k].ts >= a /\ fe[k].ts <= b}

\* sum of FundingEvent.amount_usdt with ts in [a, b]
FundingInWindow(fe, a, b) ==
    LET W == FundingRows(fe, a, b)
    IN  Sum([k \in W |-> fe[k].amount_usdt], W) * Scale

\* "Fallback B": fees of executions without order ids on a funding settlement time
FundingFromExecs(ex, a, b) ==
    LET W == {i \in Ids(ex) : /\ ex[i].order_link_id = 0
                              /\ ex[i].exchange_order_id = 0
                              /\ ex[i].ts >= a /\ ex[i].ts <= b
                              /\ IsFundingClock(ex[i].ts)}
    IN  FeeOf(ex, W) * Scale

\* ------------------------------------------------- rebuild: aggregation
_vwap_q(ex, S) ==
    LET q == QtyOf(ex, S)
    IN  IF q <= 0 THEN [v |-> None, q |-> 0]
        ELSE [v |-> Some((PxQtyOf(ex, S) * Scale) \div q), q |-> q]

_best_price(ex, S, side_first) ==
    IF S = {} THEN None
    ELSE LET prices == {ex[i].price * Scale : i \in S}
         IN  Some(IF side_first = "buy" THEN Min(prices) ELSE Max(prices))

\* grouping key: exchange_order_id, else order_link_id, else one bucket per row
GroupKey(ex, i) ==
    IF ex[i].exchange_order_id # 0 THEN <<"id", ex[i].exchange_order_id>>
    ELSE IF ex[i].order_link_id # 0 THEN <<"id", ex[i].order_link_id>>
    ELSE <<"__orphans__", i>>

GroupSide(ex, S) ==
    LET buys  == {ex[i].ts : i \in {k \in S : ex[k].side = "buy"}}
        sells == {ex[i].ts : i \in {k \in S : ex[k].side = "sell"}}
    IN  IF buys # {} /\ (sells = {} \/ Min(buys) <= Min(sells)) THEN "buy" ELSE "sell"

GroupAgg(ex, S) ==
    LET side == GroupSide(ex, S)
        vq   == _vwap_q(ex, S)
    IN  [side     |-> side,
         qty      |-> vq.q,
         vwap     |-> vq.v,
         best     |-> _best_price(ex, S, side),
         first_ts |-> Min({ex[i].ts : i \in S}),
         last_ts  |-> Max({ex[i].ts : i \in S}),
         fee_sum  |-> FeeOf(ex, S),
         rows     |-> S]

\* the groups of the unconsumed rows, in the order of their first row under
\* ORDER BY ts, id (dict insertion order; the stable sort by first_ts keeps it)
RECURSIVE GroupsOf(_, _, _)
GroupsOf(ex, rows, seen) ==
    IF rows = <<>> THEN <<>>
    ELSE LET k == GroupKey(ex, Head(rows))
         IN  IF k \in seen THEN GroupsOf(ex, Tail(rows), seen)
             ELSE LET S == {i \in Unconsumed(ex) : GroupKey(ex, i) = k}
                  IN  <<GroupAgg(ex, S)>> \o GroupsOf(ex, Tail(rows), seen \cup {k})

Aggregate(ex) == GroupsOf(ex, SortByTs(ex, Unconsumed(ex)), {})


\* ------------------------------------------------------------ positions
\* models.Position(...) as the rebuilds and the reconcile helpers write it.
\* entry_rows / exit_rows record which execution rows went into the row's
\* aggregates, funding_rows which FundingEvent rows went into its funding and
\* pnl (the code keeps no such link; the claims speak of it).
ClosedPosition(side_first, opened_at, closed_at, qty, v_entry, v_exit, best_entry, best_exit, fee_open, fee_close, funding, pnl, entry_rows, exit_rows) ==
    [side             |-> IF side_first = "buy" THEN "long" ELSE "short",
     status           |-> "closed",
     opened_at        |-> opened_at,
     closed_at        |-> Some(closed_at),
     last_exec_at     |-> closed_at,
     qty              |-> qty,
     entry_price_vwap |-> v_entry,
     exit_price_vwap  |-> v_exit,
     entry_price_best |-> best_entry,
     exit_price_best  |-> best_exit,
     fee_open_usdt    |-> fee_open,
     fee_close_usdt   |-> Some(fee_close),
     funding_usdt     |-> funding,
     pnl_usdt         |-> Some(pnl),
     entry_rows       |-> entry_rows,
     exit_rows        |-> exit_rows,
     funding_rows     |-> {}]

OpenPosition(side, opened_at, last_ts, qty, v_open, best_open, fee_open, entry_rows) ==
    [side             |-> side,
     status           |-> "open",
     opened_at        |-> opened_at,
     closed_at        |-> None,
     last_exec_at     |-> last_ts,
     qty              |-> qty,
     entry_price_vwap |-> v_open,
     exit_price_vwap  |-> None,
     entry_price_best |-> best_open,
     exit_price_best  |-> None,
     fee_open_usdt    |-> fee_open,
     fee_close_usdt   |-> None,
     funding_usdt     |-> 0,
     pnl_usdt         |-> None,
     entry_rows       |-> entry_rows,
     exit_rows        |-> {},
     funding_rows     |-> {}]

\* gross pnl of the rebuilds: (v_exit - v_entry) * q for a buy entry, inverted for a sell entry
GrossPnl(side_first, v_entry, v_exit, q) ==
    IF side_first = "buy" THEN (v_exit - v_entry) * q ELSE (v_entry - v_exit) * q

\* ------------------------------- rebuild_positions_orderlink: pairing stage
\* index of the first later group of opposite side and equal quantity, 0 if none
FirstMatch(agg, i) ==
    LET C == {j \in (i + 1)..Len(agg) :
                 agg[j].side # agg[i].side /\ Abs(agg[i].qty - agg[j].qty) <= 0}
    IN  IF C = {} THEN 0 ELSE Min(C)

PairPosition(ex, fe, entry_g, exit_g) ==
    LET side_first == entry_g.side
        v_entry    == Val(entry_g.vwap)
        v_exit     == Val(exit_g.vwap)
        q_entry    == entry_g.qty
        opened_at  == entry_g.first_ts
        closed_at  == exit_g.last_ts
        f0         == FundingInWindow(fe, opened_at, closed_at)
        funding    == IF f0 = 0 THEN f0 + FundingFromExecs(ex, opened_at, closed_at) ELSE f0
        pnl_gross  == GrossPnl(side_first, v_entry, v_exit, q_entry)
        pnl_net    == pnl_gross - Abs(entry_g.fee_sum * Scale)
                                - Abs(exit_g.fee_sum * Scale) - funding
        exit_side  == IF side_first = "buy" THEN "sell" ELSE "buy"
    IN  [ClosedPosition(side_first, opened_at, closed_at, q_entry,
                        Some(v_entry), Some(v_exit),
                        OrElse(_best_price(ex, entry_g.rows, side_first), Some(v_entry)),
                        OrElse(_best_price(ex, exit_g.rows, exit_side), Some(v_exit)),
                        Abs(entry_g.fee_sum * Scale), Abs(exit_g.fee_sum * Scale),
                        funding, pnl_net, entry_g.rows, exit_g.rows)
           EXCEPT !.funding_rows = FundingRows(fe, opened_at, closed_at)]

\* the while-loop over the sorted groups; acc = [created, used_row_ids]
RECURSIVE PairGroups(_, _, _, _, _)
PairGroups(ex, fe, agg, i, acc) ==
    IF i >= Len(agg) THEN acc
    ELSE LET j == FirstMatch(agg, i) IN
         IF j = 0 THEN PairGroups(ex, fe, agg, i + 1, acc)
         ELSE LET g1 == agg[i]
                  g2 == agg[j]
                  entry_g == IF g1.first_ts <= g2.first_ts THEN g1 ELSE g2
                  exit_g  == IF g1.first_ts <= g2.first_ts THEN g2 ELSE g1
              IN  IF ~(Truthy(entry_g.vwap) /\ Truthy(exit_g.vwap) /\ entry_g.qty > 0)
                  THEN PairGroups(ex, fe, agg, j + 1, acc)
                  ELSE PairGroups(ex, fe, agg, j + 1,
                         [created      |-> Append(acc.created, PairPosition(ex, fe, entry_g, exit_g)),
                          used_row_ids |-> acc.used_row_ids \cup entry_g.rows \cup exit_g.rows])


\* ------------------------------- rebuild_positions_orderlink: netting stage
_vwap_q_execs(ex, fills) == _vwap_q(ex, fills)

_best_exec_price(ex, fills, side) == _best_price(ex, fills, side)

OppositeSide(side) == IF side = "buy" THEN "sell" ELSE "buy"

\* the running state of the netting loop before its first row
NetStart(created, used_row_ids) ==
    [net |-> 0, entry_fills |-> {}, exit_fills |-> {}, fee_open_r |-> 0, fee_close_r |-> 0,
     first_side_r |-> "", opened_at_r |-> 0, created |-> created, used_row_ids |-> used_row_ids]

\* the closed Position written when the running net returns to zero on row e
NetPosition(ex, fe, a, e) ==
    LET ve == _vwap_q_execs(ex, a.entry_fills)
        vx == _vwap_q_execs(ex, a.exit_fills)
        funding_raw_r == FundingInWindow(fe, a.opened_at_r, ex[e].ts)
        pnl_gross_r   == GrossPnl(a.first_side_r, Val(ve.v), Val(vx.v), ve.q)
        pnl_net_r     == pnl_gross_r - Abs(a.fee_open_r * Scale)
                                     - Abs(a.fee_close_r * Scale) - funding_raw_r
    IN  [ClosedPosition(a.first_side_r, a.opened_at_r, ex[e].ts, ve.q, ve.v, vx.v,
                        OrElse(_best_exec_price(ex, a.entry_fills, a.first_side_r), ve.v),
                        OrElse(_best_exec_price(ex, a.exit_fills, OppositeSide(a.first_side_r)), vx.v),
                        Abs(a.fee_open_r * Scale), Abs(a.fee_close_r * Scale),
                        funding_raw_r, pnl_net_r, a.entry_fills, a.exit_fills)
           EXCEPT !.funding_rows = FundingRows(fe, a.opened_at_r, ex[e].ts)]

\* one iteration of `for e in remaining_rows`
NetStep(ex, fe, a, e) ==
    IF ex[e].qty = 0 THEN [a EXCEPT !.used_row_ids = @ \cup {e}]
    ELSE
    LET side    == ex[e].side
        started == [a EXCEPT !.first_side_r = IF a.net = 0 THEN side ELSE @,
                             !.opened_at_r  = IF a.net = 0 THEN ex[e].ts ELSE @]
        isEntry == side = started.first_side_r
        b == [started EXCEPT
                !.net         = @ + (IF side = "buy" THEN ex[e].qty ELSE 0 - ex[e].qty),
                !.entry_fills = IF isEntry THEN @ \cup {e} ELSE @,
                !.exit_fills  = IF isEntry THEN @ ELSE @ \cup {e},
                !.fee_open_r  = IF isEntry THEN @ + ex[e].fee_usdt ELSE @,
                !.fee_close_r = IF isEntry THEN @ ELSE @ + ex[e].fee_usdt]
    IN  IF Abs(b.net) > 0 THEN b
        ELSE LET ve == _vwap_q_execs(ex, b.entry_fills)
                 vx == _vwap_q_execs(ex, b.exit_fills)
                 ok == ~IsNone(ve.v) /\ ~IsNone(vx.v) /\ ve.q > 0
             IN  NetStart(IF ok THEN Append(b.created, NetPosition(ex, fe, b, e)) ELSE b.created,
                          b.used_row_ids \cup b.entry_fills \cup b.exit_fills)

RECURSIVE NetLoop(_, _, _, _)
NetLoop(ex, fe, rows, a) ==
    IF rows = <<>> THEN a ELSE NetLoop(ex, fe, Tail(rows), NetStep(ex, fe, a, Head(rows)))

\* the synthetic close of a run that never returned to zero and is older than the cutoff
StalePosition(ex, fe, a, last_row) ==
    LET last_ts    == ex[last_row].ts
        last_price == ex[last_row].price * Scale
        ve == _vwap_q_execs(ex, a.entry_fills)
        f0 == FundingInWindow(fe, a.opened_at_r, last_ts)
        funding_raw_r == IF f0 = 0 THEN f0 + FundingFromExecs(ex, a.opened_at_r, last_ts) ELSE f0
        pnl_gross_r   == GrossPnl(a.first_side_r, Val(ve.v), last_price, ve.q)
        pnl_net_r     == pnl_gross_r - Abs(a.fee_open_r * Scale)
                                     - Abs(a.fee_close_r * Scale) - funding_raw_r
    IN  [ClosedPosition(a.first_side_r, a.opened_at_r, last_ts, ve.q, ve.v, Some(last_price),
                        OrElse(_best_exec_price(ex, a.entry_fills, a.first_side_r), ve.v),
                        Some(last_price),
                        Abs(a.fee_open_r * Scale), Abs(a.fee_close_r * Scale),
                        funding_raw_r, pnl_net_r, a.entry_fills, {})
           EXCEPT !.funding_rows = FundingRows(fe, a.opened_at_r, last_ts)]

AutoCloseStale(ex, fe, rows, a, cutoff) ==
    IF ~(Abs(a.net) > 0 /\ rows # <<>>) THEN a
    ELSE LET last_row == rows[Len(rows)] IN
         IF ~(ex[last_row].ts <= cutoff /\ a.entry_fills # {}) THEN a
         ELSE LET ve == _vwap_q_execs(ex, a.entry_fills)
                  ok == Truthy(ve.v) /\ ve.q > 0 /\ ex[last_row].price > 0
              IN  [a EXCEPT !.created = IF ok THEN Append(@, StalePosition(ex, fe, a, last_row)) ELSE @,
                            !.used_row_ids = @ \cup a.entry_fills]

\* netting over the rows the pairing left, then the auto-close
NetRemaining(ex, fe, paired, cutoff) ==
    LET rows == SortByTs(ex, Unconsumed(ex) \ paired.used_row_ids)
    IN  AutoCloseStale(ex, fe, rows,
                       NetLoop(ex, fe, rows, NetStart(paired.created, paired.used_row_ids)),
                       cutoff)

\* ------------------------- rebuild_positions_orderlink: open-position carry
\* `for g in agg` over what is left; ps are the stored and the flushed Positions
RECURSIVE OpenRemaining(_, _, _, _, _)
OpenRemaining(ex, ps, agg, k, used_row_ids) ==
    IF k > Len(agg) THEN ps
    ELSE LET g == agg[k]
             remaining == g.rows \ used_row_ids
             entry_side_execs == {i \in remaining : ex[i].side = g.side}
             basis == IF entry_side_execs # {} THEN entry_side_execs ELSE remaining
             vq == _vwap_q(ex, basis)
         IN  IF remaining = {} \/ OpenPositions(ps) # {} \/ ~Truthy(vq.v) \/ vq.q <= 0
             THEN OpenRemaining(ex, ps, agg, k + 1, used_row_ids)
             ELSE OpenRemaining(ex,
                    Append(ps, OpenPosition(IF g.side = "buy" THEN "long" ELSE "short",
                                            Min({ex[i].ts : i \in remaining}),
                                            Max({ex[i].ts : i \in remaining}),
                                            vq.q, vq.v, _best_price(ex, remaining, g.side),
                                            Abs(FeeOf(ex, basis) * Scale), basis)),
                    agg, k + 1, {})

\* rebuild_positions_orderlink(db, bot_id) at a time whose staleness cutoff is
\* `cutoff`: the store [executions, positions] it commits
rebuild_positions_orderlink(ex, ps, fe, cutoff) ==
    IF Unconsumed(ex) = {} THEN [executions |-> ex, positions |-> ps]
    ELSE TheOne({TheOne({TheOne({
            [executions |-> MarkConsumed(ex, netted.used_row_ids),
             positions  |-> OpenRemaining(ex, ps \o netted.created, agg, 1, netted.used_row_ids)] :
                netted \in {NetRemaining(ex, fe, paired, cutoff)}}) :
                paired \in {PairGroups(ex, fe, agg, 1, [created |-> <<>>, used_row_ids |-> {}])}}) :
                agg    \in {Aggregate(ex)}})


\* ------------------------------------------------------ rebuild_positions
\* the closed Position of the time-only rebuild (no best prices, no funding)
NettedPosition(ex, a, e) ==
    LET qsum       == QtyOf(ex, a.entry)
        vwap_entry == (PxQtyOf(ex, a.entry) * Scale) \div qsum
        vwap_exit  == (PxQtyOf(ex, a.exit) * Scale) \div qsum
        gross      == GrossPnl(a.first_side, vwap_entry, vwap_exit, qsum)
    IN  ClosedPosition(a.first_side, a.opened_at, ex[e].ts, qsum,
                       Some(vwap_entry), Some(vwap_exit), None, None,
                       Abs(a.fee_open * Scale), Abs(a.fee_close * Scale), 0,
                       gross - Abs(a.fee_open * Scale) - Abs(a.fee_close * Scale),
                       a.entry, a.exit)

TimeNetStart(created, used) ==
    [net |-> 0, entry |-> {}, exit |-> {}, fee_open |-> 0, fee_close |-> 0,
     first_side |-> "", opened_at |-> 0, created |-> created, used |-> used]

\* one iteration of `for e in rows`
TimeNetStep(ex, a, e) ==
    LET side    == ex[e].side
        started == [a EXCEPT !.first_side = IF a.net = 0 THEN side ELSE @,
                             !.opened_at  = IF a.net = 0 THEN ex[e].ts ELSE @]
        isEntry == side = started.first_side
        b == [started EXCEPT
                !.net       = @ + (IF side = "buy" THEN ex[e].qty ELSE 0 - ex[e].qty),
                !.entry     = IF isEntry THEN @ \cup {e} ELSE @,
                !.exit      = IF isEntry THEN @ ELSE @ \cup {e},
                !.fee_open  = IF isEntry THEN @ + ex[e].fee_usdt ELSE @,
                !.fee_close = IF isEntry THEN @ ELSE @ + ex[e].fee_usdt]
    IN  IF Abs(b.net) > 0 THEN b
        ELSE IF QtyOf(ex, b.entry) > 0
             THEN [TimeNetStart(Append(b.created, NettedPosition(ex, b, e)),
                                b.used \cup b.entry \cup b.exit)
                     EXCEPT !.first_side = b.first_side, !.opened_at = b.opened_at]
             ELSE [TimeNetStart(b.created, b.used)
                     EXCEPT !.first_side = b.first_side, !.opened_at = b.opened_at]

RECURSIVE TimeNetLoop(_, _, _)
TimeNetLoop(ex, rows, a) ==
    IF rows = <<>> THEN a ELSE TimeNetLoop(ex, Tail(rows), TimeNetStep(ex, a, Head(rows)))

\* "Fallback: offene Reste": every row still unconsumed goes into one closed Position
RestPosition(ex, remaining) ==
    LET qty_sum == QtyOf(ex, remaining)
        vwap_r  == (PxQtyOf(ex, remaining) * Scale) \div Abs(qty_sum)
    IN  [ClosedPosition(IF qty_sum > 0 THEN "buy" ELSE "sell",
                        Min({ex[i].ts : i \in remaining}), Max({ex[i].ts : i \in remaining}),
                        Abs(qty_sum), Some(vwap_r), Some(vwap_r), None, None,
                        0, 0, 0, 0, remaining, {})
           EXCEPT !.last_exec_at = 0]

\* rebuild_positions after its first query returned the rows `seen`: the
\* netting loop runs over those rows, the fallback query reads the table again
rebuild_positions_seen(seen, ex, ps) ==
    IF seen = {} THEN [executions |-> ex, positions |-> ps, error |-> FALSE]
    ELSE LET a == TimeNetLoop(ex, SortByTs(ex, seen), TimeNetStart(<<>>, {}))
             remaining == Unconsumed(ex) \ a.used
             priced    == {i \in remaining : ex[i].price # 0}
         IN  IF remaining = {} \/ priced = {}
             THEN [executions |-> MarkConsumed(ex, a.used),
                   positions  |-> ps \o a.created, error |-> FALSE]
             ELSE IF QtyOf(ex, remaining) = 0
             THEN [executions |-> ex, positions |-> ps, error |-> TRUE]
             ELSE [executions |-> MarkConsumed(ex, a.used \cup remaining),
                   positions  |-> (ps \o a.created) \o <<RestPosition(ex, remaining)>>,
                   error |-> FALSE]

\* rebuild_positions(db, bot_id): the store it commits, or error (ZeroDivisionError)
rebuild_positions(ex, ps) == rebuild_positions_seen(Unconsumed(ex), ex, ps)

\* ----------------------------------------------------------------- pnl.py
compute_pnl(side, qty, entry_price, mark_price, fees_open, fees_close) ==
    LET gross == IF side = "long" THEN (mark_price - entry_price) * qty
                 ELSE (entry_price - mark_price) * qty
    IN  gross - fees_open - fees_close

\* ------------------------------------------------------------ positions.py
\* unconsumed rows of the key from the Position's opened_at on
RowsSince(ex, opened_at) == {i \in Unconsumed(ex) : ex[i].ts >= opened_at}

\* the loop of _aggregate_exits_for_position: take exit-side quantity until
\* the Position's quantity is covered
RECURSIVE TakeExits(_, _, _, _, _)
TakeExits(ex, rows, exit_side, qty_target, a) ==
    IF rows = <<>> THEN a
    ELSE LET e == Head(rows)
             q == ex[e].qty
             remaining == qty_target - a.used_qty
             take == IF q < remaining THEN q ELSE remaining
         IN  IF ex[e].side # exit_side \/ q <= 0
             THEN TakeExits(ex, Tail(rows), exit_side, qty_target, a)
             ELSE IF remaining <= 0 THEN a
             ELSE TakeExits(ex, Tail(rows), exit_side, qty_target,
                    [used_qty |-> a.used_qty + take,
                     vwap_num |-> a.vwap_num + ex[e].price * take,
                     fee_sum  |-> a.fee_sum + (ex[e].fee_usdt * take * Scale) \div q,
                     last_ts  |-> ex[e].ts,
                     rows     |-> a.rows \cup {e}])

\* (vwap_exit, fee_close_usdt, closed_at) of a Position, found = FALSE for (None, 0.0, None)
_aggregate_exits_for_position(ex, pos) ==
    LET nothing == [found |-> FALSE, vwap_exit |-> 0, fee_sum |-> 0, last_ts |-> 0, rows |-> {}]
        execs   == RowsSince(ex, pos.opened_at)
        a == TakeExits(ex, SortByTs(ex, execs),
                       IF pos.side = "long" THEN "sell" ELSE "buy", pos.qty,
                       [used_qty |-> 0, vwap_num |-> 0, fee_sum |-> 0, last_ts |-> 0, rows |-> {}])
    IN  IF pos.qty <= 0 \/ execs = {} \/ a.used_qty < pos.qty THEN nothing
        ELSE [found |-> TRUE, vwap_exit |-> (a.vwap_num * Scale) \div a.used_qty,
              fee_sum |-> a.fee_sum, last_ts |-> a.last_ts, rows |-> a.rows]

\* _finalize_position: the row it commits
_finalize_position(pos, exit_price, pnl_usdt, fee_close_usdt, closed_at, exit_rows) ==
    [pos EXCEPT !.status = "closed",
                !.exit_price_vwap = Some(exit_price),
                !.pnl_usdt = Some(pnl_usdt),
                !.fee_close_usdt = Some(fee_close_usdt),
                !.closed_at = Some(closed_at),
                !.exit_rows = exit_rows]

\* _consume_execs_for_position: every unconsumed row of the key within
\* [opened_at, closed_at], whatever its side
_consume_execs_for_position(ex, pos) ==
    LET end_ts == IF ~IsNone(pos.closed_at) THEN Val(pos.closed_at)
                  ELSE IF pos.last_exec_at # 0 THEN pos.last_exec_at ELSE pos.opened_at
    IN  MarkConsumed(ex, {i \in Unconsumed(ex) : ex[i].ts >= pos.opened_at /\ ex[i].ts <= end_ts})

\* entry_price_vwap or entry_price_trigger or 0.0 (no code sets entry_price_trigger)
EntryPx(pos) == IF Truthy(pos.entry_price_vwap) THEN Val(pos.entry_price_vwap) ELSE 0

\* the Position row close_if_match finalizes for open Position p, given the exits
ClosedByMatch(ex, fe, pos, x) ==
    LET funding_total == FundingInWindow(fe, pos.opened_at, x.last_ts)
        pnl_usdt == compute_pnl(pos.side, pos.qty, EntryPx(pos), x.vwap_exit,
                                pos.fee_open_usdt, x.fee_sum) - funding_total
    IN  [_finalize_position(pos, x.vwap_exit, pnl_usdt, x.fee_sum, x.last_ts, x.rows)
           EXCEPT !.funding_rows = FundingRows(fe, pos.opened_at, x.last_ts)]

\* close_if_match on open Position p (0: there is none): the store after it
close_if_match(ex, ps, fe, p) ==
    IF p = 0 THEN [executions |-> ex, positions |-> ps, closed |-> FALSE]
    ELSE LET x == _aggregate_exits_for_position(ex, ps[p]) IN
         IF ~x.found THEN [executions |-> ex, positions |-> ps, closed |-> FALSE]
         ELSE LET pos == ClosedByMatch(ex, fe, ps[p], x)
              IN  [executions |-> _consume_execs_for_position(ex, pos),
                   positions  |-> [ps EXCEPT ![p] = pos],
                   closed     |-> TRUE]

_aggregate_entries_for_open(ex) ==
    LET rows     == SortByTs(ex, Unconsumed(ex))
        withQty  == {k \in 1..Len(rows) : ex[rows[k]].qty # 0}
        nothing  == [found |-> FALSE, side_first |-> "", entry |-> {}]
    IN  IF withQty = {} THEN nothing
        ELSE LET side_first == ex[rows[Min(withQty)]].side
                 entry == {i \in Unconsumed(ex) : ex[i].side = side_first}
             IN  IF QtyOf(ex, entry) <= 0 THEN nothing
                 ELSE [found |-> TRUE, side_first |-> side_first, entry |-> entry]

\* the open Position open_from_execs_if_missing inserts from the aggregate
OpenedFromExecs(ex, agg) ==
    OpenPosition(IF agg.side_first = "buy" THEN "long" ELSE "short",
                 Min({ex[i].ts : i \in agg.entry}), Max({ex[i].ts : i \in agg.entry}),
                 QtyOf(ex, agg.entry), _vwap_q(ex, agg.entry).v,
                 _best_price(ex, agg.entry, agg.side_first),
                 Abs(FeeOf(ex, agg.entry) * Scale), agg.entry)

open_from_execs_if_missing(ex, ps) ==
    LET agg == _aggregate_entries_for_open(ex)
    IN  IF OpenPositions(ps) # {} \/ ~agg.found THEN [positions |-> ps, opened |-> FALSE]
        ELSE [positions |-> Append(ps, OpenedFromExecs(ex, agg)), opened |-> TRUE]

\* reconcile_symbol: close first, then open; p is the open Position .first() returns
reconcile_symbol(ex, ps, fe, p) ==
    LET c == close_if_match(ex, ps, fe, p)
        o == open_from_execs_if_missing(c.executions, c.positions)
    IN  [executions |-> c.executions, positions |-> o.positions,
         closed |-> c.closed, opened |-> o.opened]


\* update_fee_open_for_position: fee_open and last_exec_at from the unconsumed
\* rows since opened_at
update_fee_open_for_position(ex, pos) ==
    LET execs      == RowsSince(ex, pos.opened_at)
        entry_side == IF pos.side = "long" THEN "buy" ELSE "sell"
    IN  [pos EXCEPT !.fee_open_usdt = FeeOf(ex, {i \in execs : ex[i].side = entry_side}) * Scale,
                    !.last_exec_at  = IF execs = {} THEN @ ELSE Max({ex[i].ts : i \in execs})]

\* handle_position_open without its look-up of an open Position
handle_position_open_unchecked(ex, ps, side, qty, t) ==
    Append(ps, update_fee_open_for_position(ex,
                   OpenPosition(side, t, t, qty, None, None, 0, {})))

\* handle_position_open(db, bot_id, symbol, side, qty) called at time t
handle_position_open(ex, ps, side, qty, t) ==
    IF OpenPositions(ps) # {} THEN ps
    ELSE Append(ps, update_fee_open_for_position(ex,
                        OpenPosition(side, t, t, qty, None, None, 0, {})))

\* handle_position_close(db, position_id): with no exits found the fallback
\* float(pos.mark_price) raises, mark_price being NULL on every stored row
handle_position_close(ex, ps, p) ==
    LET pos == ps[p]
        x   == _aggregate_exits_for_position(ex, pos)
    IN  IF ~x.found THEN [executions |-> ex, positions |-> ps, error |-> TRUE]
        ELSE LET pnl_usdt == compute_pnl(pos.side, pos.qty, EntryPx(pos), x.vwap_exit,
                                         pos.fee_open_usdt, x.fee_sum)
                 done == _finalize_position(pos, x.vwap_exit, pnl_usdt, x.fee_sum, x.last_ts, x.rows)
             IN  [executions |-> _consume_execs_for_position(ex, done),
                  positions  |-> [ps EXCEPT ![p] = done],
                  error      |-> FALSE]

\* ------------------------------------------------------------- ingestion
\* an exchange payload: execId, side, execPrice, execQty, execFee, execTime,
\* orderId, orderLinkId
Payload(exec_id, side, price, qty, fee, ts, order_id, link_id) ==
    [exchange_exec_id |-> exec_id, side |-> side, price |-> price, qty |-> qty,
     fee_usdt |-> fee, ts |-> ts, exchange_order_id |-> order_id, order_link_id |-> link_id]

\* the payload a stored row came from
PayloadOf(row) ==
    Payload(row.exchange_exec_id, row.side, row.price, row.qty, row.fee_usdt, row.ts,
            row.exchange_order_id, row.order_link_id)

\* models.Execution(...) of a payload
ExecutionRow(r) ==
    [exchange_exec_id |-> r.exchange_exec_id, side |-> r.side, price |-> r.price,
     qty |-> r.qty, fee_usdt |-> r.fee_usdt, ts |-> r.ts,
     exchange_order_id |-> r.exchange_order_id, order_link_id |-> r.order_link_id,
     is_consumed |-> FALSE]

\* _persist_execution over a batch: a payload is skipped when a stored row has
\* its execId; the rows db.add()ed are pending and no query sees them
\* (autoflush=False)
RECURSIVE _persist_execution(_, _)
_persist_execution(ex, batch) ==
    IF batch = <<>> THEN <<>>
    ELSE LET r == Head(batch)
             exists == \E i \in Ids(ex) : ex[i].exchange_exec_id = r.exchange_exec_id
         IN  (IF exists THEN <<>> ELSE <<ExecutionRow(r)>>) \o _persist_execution(ex, Tail(batch))

\* uq_exec_bot_execid over the pending rows of one flush
ViolatesUnique(ex, pending) ==
    \/ \E i, j \in 1..Len(pending) :
          i # j /\ pending[i].exchange_exec_id = pending[j].exchange_exec_id
    \/ \E i \in 1..Len(pending), k \in Ids(ex) :
          pending[i].exchange_exec_id = ex[k].exchange_exec_id

\* _persist_execution for each payload of the batch, then db.commit()
PersistAndCommit(ex, batch) ==
    LET pending == _persist_execution(ex, batch)
    IN  IF ViolatesUnique(ex, pending) THEN [executions |-> ex, error |-> TRUE]
        ELSE [executions |-> ex \o pending, error |-> FALSE]


\* ============================================================== the system
\* two database sessions (request threads, the startup thread); a session
\* holds what it has read so far: the rows of its first query, the Position it
\* works on and the row it is about to write
Sessions == {1, 2}
Idle     == [pc |-> "idle", seen |-> {}, p |-> 0, row |-> None]

\* what the last operation was and what it returned to its caller: whether it
\* raised, whether it changed the store, and the execIds it was given
Outcome(op, error, changed, exec_ids) ==
    [op |-> op, error |-> error, changed |-> changed, exec_ids |-> exec_ids]

\* a sync's position in its paginated exchange fetches: which fetch loop it is
\* in, the nextPageCursor of the last response (0: none), the loop counter of
\* `for _ in range(max_pages)`, and the fills fetched so far
FetchIdle == [pc |-> "idle", cursor |-> 0, page |-> 0, items |-> <<>>]

Init ==
    /\ executions = <<>>
    /\ positions = <<>>
    /\ funding_events = <<>>
    /\ now = 1
    /\ outcome = Outcome("init", FALSE, FALSE, {})
    /\ sess = [s \in Sessions |-> Idle]
    /\ position_cache = None
    /\ fetch = FetchIdle
    /\ last_sync_at = None

\* what the exchange can report: fees of either sign (taker fee, maker rebate),
\* an order id or none (0), no order-link id
Fees     == {0 - 1, 1}
OrderIds == {0, 1}
Amounts  == {0 - 1, 1}

\* the fills the exchange reports for the first time at the current clock
NewPayloads(qtys, prices, fees, oids) ==
    {Payload(Len(executions) + 1, side, price, qty, fee, ts, oid, 0) :
        side \in Sides, price \in prices, qty \in qtys, fee \in fees,
        ts \in 1..now, oid \in oids}

\* the clock advances, up to cap
TickUpTo(cap) ==
    /\ now < cap
    /\ now' = now + 1
    /\ outcome' = Outcome("tick", FALSE, FALSE, {})
    /\ UNCHANGED <<executions, positions, funding_events, sess, position_cache, fetch, last_sync_at>>

Tick == TickUpTo(MaxTs)

\* a sync persists one batch of fetched fills and commits; cap bounds the table
PersistUpTo(batch, cap) ==
    LET res == PersistAndCommit(executions, batch) IN
    /\ Len(res.executions) <= cap
    /\ executions' = res.executions
    /\ outcome' = Outcome("persist", res.error, res.executions # executions,
                          {batch[k].exchange_exec_id : k \in 1..Len(batch)})
    /\ UNCHANGED <<positions, funding_events, now, sess, position_cache, fetch, last_sync_at>>

PersistExecutions(batch) == PersistUpTo(batch, MaxExecs)

\* _persist_funding_event of a funding-type transaction log row, committed
PersistFunding ==
    /\ Len(funding_events) < MaxFunding
    /\ \E ts \in 1..now, amount \in Amounts :
          funding_events' = Append(funding_events, [ts |-> ts, amount_usdt |-> amount])
    /\ outcome' = Outcome("funding", FALSE, TRUE, {})
    /\ UNCHANGED <<executions, positions, now, sess, position_cache, fetch, last_sync_at>>

RebuildOrderlink ==
    \E res \in {rebuild_positions_orderlink(executions, positions, funding_events,
                                           now - StaleAfter)} :
    /\ Len(res.positions) <= MaxPos
    /\ executions' = res.executions
    /\ positions' = res.positions
    /\ outcome' = Outcome("rebuild_positions_orderlink", FALSE,
                          res.executions # executions \/ res.positions # positions, {})
    /\ UNCHANGED <<funding_events, now, sess, position_cache, fetch, last_sync_at>>

Rebuild ==
    \E res \in {rebuild_positions(executions, positions)} :
    /\ Len(res.positions) <= MaxPos
    /\ executions' = res.executions
    /\ positions' = res.positions
    /\ outcome' = Outcome("rebuild_positions", res.error,
                          res.executions # executions \/ res.positions # positions, {})
    /\ UNCHANGED <<funding_events, now, sess, position_cache, fetch, last_sync_at>>

\* the open Position `.first()` returns, 0 for none
FirstOpen(ps) == IF OpenPositions(ps) = {} THEN {0} ELSE OpenPositions(ps)

ReconcileSymbol ==
    \E p \in FirstOpen(positions) :
       \E res \in {reconcile_symbol(executions, positions, funding_events, p)} :
       /\ Len(res.positions) <= MaxPos
       /\ executions' = res.executions
       /\ positions' = res.positions
       /\ outcome' = Outcome("reconcile_symbol", FALSE, res.closed \/ res.opened, {})
       /\ UNCHANGED <<funding_events, now, sess, position_cache, fetch, last_sync_at>>

HandlePositionOpen ==
    \E side \in {"long", "short"}, qty \in 1..MaxQty :
       LET ps == handle_position_open(executions, positions, side, qty, now) IN
       /\ Len(ps) <= MaxPos
       /\ positions' = ps
       /\ outcome' = Outcome("handle_position_open", FALSE, ps # positions, {})
       /\ UNCHANGED <<executions, funding_events, now, sess, position_cache, fetch, last_sync_at>>

HandlePositionClose ==
    \E p \in Ids(positions) :
       LET res == handle_position_close(executions, positions, p) IN
       /\ executions' = res.executions
       /\ positions' = res.positions
       /\ outcome' = Outcome("handle_position_close", res.error, ~res.error, {})
       /\ UNCHANGED <<funding_events, now, sess, position_cache, fetch, last_sync_at>>

\* main._on_exec on a websocket execution row: Execution(..., is_maker=...)
\* names a column the model class does not have, so the constructor raises
\* TypeError before db.add; nothing is stored and rebuild_positions is not reached
OnExec ==
    \E r \in NewPayloads(1..MaxQty, {1}, Fees, {0}) :
       /\ outcome' = Outcome("_on_exec", TRUE, FALSE, {r.exchange_exec_id})
       /\ UNCHANGED <<executions, positions, funding_events, now, sess, position_cache, fetch, last_sync_at>>

ReconcileOps == {"rebuild_positions_orderlink", "rebuild_positions", "reconcile_symbol"}

\* ---- Spec: ingestion and the three reconciliation entry points, each run to
\* completion, over fills that differ in side, quantity, timestamp and order id
Ingest ==
    \E r \in NewPayloads(1..MaxQty, {1}, {1}, OrderIds) : PersistExecutions(<<r>>)

Next ==
    \/ Tick
    \/ Ingest
    \/ RebuildOrderlink
    \/ Rebuild
    \/ ReconcileSymbol

Spec == Init /\ [][Next]_vars

\* ------------------------------------------------ properties under Spec
\* the Positions, open or closed, whose aggregates a fill went into
FoldedInto(ps, i) == {p \in Ids(ps) : i \in ps[p].entry_rows \cup ps[p].exit_rows}

\* C1: after any sequence of ingestions and reconcile passes no fill has been
\* folded into more than one Position row, open or closed
C1_FoldedAtMostOnce ==
    \A i \in Ids(executions) : Cardinality(FoldedInto(positions, i)) <= 1

\* fills are stored and every one of them has consumed = true
AllConsumed == executions # <<>> /\ \A i \in Ids(executions) : executions[i].is_consumed

\* C2: once every stored fill is consumed, a run of any reconcile entry point
\* (rebuild_positions_orderlink, rebuild_positions, reconcile_symbol) creates
\* no Position and changes no fill
C2_NoWorkOnceConsumed ==
    [][(AllConsumed /\ outcome'.op \in ReconcileOps)
          => (positions' = positions /\ executions' = executions)]_vars

\* a reconcile entry point has just run over a store of consumed fills only
\* and returned without a change
C2_Witness ==
    /\ AllConsumed
    /\ positions # <<>>
    /\ outcome.op \in ReconcileOps
    /\ ~outcome.changed

\* quantity of the fills folded into a Position on its entry and on its exit side
EntryQty(ex, pos) == QtyOf(ex, pos.entry_rows)
ExitQty(ex, pos)  == QtyOf(ex, pos.exit_rows)

\* C9: for every closed Position the quantity folded in on its entry side
\* equals the quantity folded in on its exit side, and both equal its qty
C9_ClosedIsBalanced ==
    \A p \in Ids(positions) :
       positions[p].status = "closed" =>
          /\ EntryQty(executions, positions[p]) = positions[p].qty
          /\ ExitQty(executions, positions[p]) = positions[p].qty

\* the store holds a single, unconsumed fill and no Position
SingleFill ==
    /\ Len(executions) = 1
    /\ Unconsumed(executions) = {1}
    /\ positions = <<>>

\* C14: a pass of any reconcile entry point over a single fill without an
\* opposite fill and without an open Position leaves exactly one Position,
\* open, with the fill's price as entry_vwap, and the fill stays unconsumed
C14_SingleFillOpens ==
    [][(SingleFill /\ outcome'.op \in ReconcileOps) =>
          /\ Len(positions') = 1
          /\ positions'[1].status = "open"
          /\ positions'[1].entry_price_vwap = Some(executions[1].price * Scale)
          /\ Unconsumed(executions') = {1}]_vars

\* C15: reconcile_symbol called again with no fill stored since its previous
\* call changes no Position and no consumed flag and reports closed = false
\* and opened = false
C15_ReconcileTwiceNoOp ==
    [][(outcome.op = "reconcile_symbol" /\ outcome'.op = "reconcile_symbol") =>
          /\ positions' = positions
          /\ executions' = executions
          /\ ~outcome'.changed]_vars

\* the netting run a rebuild at this moment finds still open after its last
\* row, and whether that row is older than the staleness cutoff
OpenRun ==
    TheOne({TheOne({TheOne({[stale |-> /\ Abs(a.net) > 0
                                       /\ rows # <<>>
                                       /\ a.entry_fills # {}
                                       /\ executions[rows[Len(rows)]].ts <= now - StaleAfter,
                             fills |-> a.entry_fills \cup a.exit_fills,
                             last  |-> IF rows = <<>> THEN 0 ELSE rows[Len(rows)]] :
                a \in {NetLoop(executions, funding_events, rows,
                               NetStart(paired.created, paired.used_row_ids))}}) :
            rows \in {SortByTs(executions, Unconsumed(executions) \ paired.used_row_ids)}}) :
        paired \in {PairGroups(executions, funding_events, Aggregate(executions), 1,
                               [created |-> <<>>, used_row_ids |-> {}])}})

\* C24: a netting run that never returns to zero and whose last fill is older
\* than the cutoff is force-closed: one closed Position at the last fill's
\* price, every fill of the run consumed, and no open Position made of or left
\* for the run's fills
C24_StaleRunForceClosed ==
    [][(outcome'.op = "rebuild_positions_orderlink" /\ positions = <<>> /\ OpenRun.stale) =>
         \A run \in {OpenRun} :
            /\ \E p \in ClosedPositions(positions') :
                  /\ positions'[p].entry_rows \subseteq run.fills
                  /\ positions'[p].exit_price_vwap = Some(executions[run.last].price * Scale)
            /\ \A i \in run.fills : executions'[i].is_consumed
            /\ OpenPositions(positions') = {}]_vars

\* the unconsumed fills on the entry side of a Position
EntrySideUnconsumed(ex, pos) ==
    {i \in Unconsumed(ex) : ex[i].side = IF pos.side = "long" THEN "buy" ELSE "sell"}

\* C25: after a reconciliation pass that leaves a Position open, its fee_open
\* is the fee sum of the unconsumed entry-side fills, those stored after the
\* Position was created included
C25_FeeOpenRecomputed ==
    [][outcome'.op \in ReconcileOps =>
         \A p \in OpenPositions(positions') :
            positions'[p].fee_open_usdt =
               Abs(FeeOf(executions', EntrySideUnconsumed(executions', positions'[p])) * Scale)]_vars

\* ---- SpecManual: the same with the manual open and close handlers, over
\* fills without order ids
IngestPlain ==
    \E r \in NewPayloads(1..MaxQty, {1}, {1}, {0}) : PersistExecutions(<<r>>)

NextManual ==
    \/ Tick
    \/ IngestPlain
    \/ RebuildOrderlink
    \/ Rebuild
    \/ ReconcileSymbol
    \/ HandlePositionOpen
    \/ HandlePositionClose

SpecManual == Init /\ [][NextManual]_vars

\* ------------------------------------------ properties under SpecManual
\* C4: under handle_position_open, reconcile_symbol, rebuild_positions_orderlink,
\* rebuild_positions and handle_position_close run one after another there is
\* at most one open Position, and handle_position_open called while one is
\* open creates no row
C4_AtMostOneOpen ==
    [][/\ Cardinality(OpenPositions(positions')) <= 1
       /\ (outcome'.op = "handle_position_open" /\ OpenPositions(positions) # {})
             => positions' = positions]_vars

\* handle_position_open has just been called with a Position open and fills stored
C4_Witness ==
    /\ outcome.op = "handle_position_open"
    /\ ~outcome.changed
    /\ Cardinality(OpenPositions(positions)) = 1
    /\ executions # <<>>

\* C16: a close request on a Position that is already closed leaves every
\* Position row (exit price, pnl, fees, closed_at) and every fill's consumed
\* flag as they were
C16_FinalizedOnce ==
    [][(/\ outcome'.op = "handle_position_close"
        /\ positions # <<>>
        /\ OpenPositions(positions) = {})
          => (positions' = positions /\ executions' = executions)]_vars

\* ---- SpecIngest: the ways a fill reaches the store: a sync that fetches it
\* for the first time, a later sync that fetches it again, a sync whose batch
\* holds it twice, and the websocket feed
SyncNew ==
    \E r \in NewPayloads(1..MaxQty, {1}, Fees, {0}) : PersistExecutions(<<r>>)

SyncAgain ==
    \E i \in Ids(executions) : PersistExecutions(<<PayloadOf(executions[i])>>)

SyncTwiceInBatch ==
    \E r \in NewPayloads(1..MaxQty, {1}, Fees, {0}) : PersistExecutions(<<r, r>>)

NextIngest ==
    \/ SyncNew
    \/ SyncAgain
    \/ SyncTwiceInBatch
    \/ OnExec

SpecIngest == Init /\ [][NextIngest]_vars

\* stored rows with the given execId
RowsOf(ex, exec_id) == {i \in Ids(ex) : ex[i].exchange_exec_id = exec_id}

\* C3: persisting a payload whose execId is already stored, is earlier in the
\* same uncommitted batch, or comes over the websocket leaves exactly one
\* Execution row with that execId and surfaces no error to the caller
C3_IngestIdempotent ==
    outcome.op \in {"persist", "_on_exec"} =>
       /\ ~outcome.error
       /\ \A e \in outcome.exec_ids : Cardinality(RowsOf(executions, e)) = 1

\* ---- SpecPnl: ingestion of fills that differ in price and in the sign of
\* their fee, funding events, and the three reconciliation entry points
IngestPriced ==
    \E r \in NewPayloads({1}, 1..MaxPrice, Fees, {0}) : PersistExecutions(<<r>>)

NextPnl ==
    \/ Tick
    \/ IngestPriced
    \/ PersistFunding
    \/ RebuildOrderlink
    \/ Rebuild
    \/ ReconcileSymbol

SpecPnl == Init /\ [][NextPnl]_vars

\* gross - |fee_open| - |fee_close| - funding over the stored fields of a row
LedgerPnl(pos) ==
    (IF pos.side = "long"
     THEN (Val(pos.exit_price_vwap) - Val(pos.entry_price_vwap)) * pos.qty
     ELSE (Val(pos.entry_price_vwap) - Val(pos.exit_price_vwap)) * pos.qty)
    - Abs(pos.fee_open_usdt) - Abs(Val(pos.fee_close_usdt)) - pos.funding_usdt

\* C10: every closed Position, from a rebuild or from the incremental close,
\* satisfies pnl = gross - |fee_open| - |fee_close| - funding on its stored fields
C10_PnlIdentity ==
    \A p \in Ids(positions) :
       positions[p].status = "closed" =>
          /\ ~IsNone(positions[p].entry_price_vwap)
          /\ ~IsNone(positions[p].exit_price_vwap)
          /\ Val(positions[p].pnl_usdt) = LedgerPnl(positions[p])

\* the store holds exactly an entry fill and a later opposite fill of the same
\* quantity (taker fees), both unconsumed, no Position and no funding event
EntryThenExit(entry, exit) ==
    /\ Ids(executions) = {entry, exit}
    /\ entry # exit
    /\ executions[entry].ts < executions[exit].ts
    /\ executions[entry].side # executions[exit].side
    /\ executions[entry].qty = executions[exit].qty
    /\ executions[entry].fee_usdt > 0 /\ executions[exit].fee_usdt > 0
    /\ Unconsumed(executions) = {entry, exit}
    /\ positions = <<>>
    /\ funding_events = <<>>

\* the one closed Position expected from an entry and an exit row of table ex
RoundTrip(ex, ps, entry, exit) ==
    /\ Len(ps) = 1
    /\ ps[1].status = "closed"
    /\ ps[1].side = (IF ex[entry].side = "buy" THEN "long" ELSE "short")
    /\ ps[1].qty = ex[entry].qty
    /\ ps[1].entry_price_vwap = Some(ex[entry].price * Scale)
    /\ ps[1].exit_price_vwap = Some(ex[exit].price * Scale)
    /\ ps[1].pnl_usdt =
          Some(GrossPnl(ex[entry].side, ex[entry].price * Scale, ex[exit].price * Scale,
                        ex[entry].qty)
               - ex[entry].fee_usdt * Scale - ex[exit].fee_usdt * Scale)

\* C12: one pass of a reconcile entry point over one entry fill and one later
\* opposite fill of the same quantity, without funding, leaves exactly one
\* Position, closed, with the entry fill's side, the fill quantity, the two
\* prices and pnl = gross minus both fees, and both fills consumed
C12_OnePassOneClosed ==
    [][\A entry, exit \in 1..MaxExecs :
          (EntryThenExit(entry, exit) /\ outcome'.op \in ReconcileOps) =>
             /\ RoundTrip(executions, positions', entry, exit)
             /\ Unconsumed(executions') = {}]_vars

\* ---- SpecRace: two sessions run rebuild_positions, each in two steps: the
\* query for the unconsumed rows, then the loops, the updates and the commit
RebuildQuery(s) ==
    /\ sess[s].pc = "idle"
    /\ Unconsumed(executions) # {}
    /\ sess' = [sess EXCEPT ![s] = [Idle EXCEPT !.pc = "rebuild", !.seen = Unconsumed(executions)]]
    /\ outcome' = Outcome("query", FALSE, FALSE, {})
    /\ UNCHANGED <<executions, positions, funding_events, now, position_cache, fetch, last_sync_at>>

RebuildCommit(s) ==
    LET res == rebuild_positions_seen(sess[s].seen, executions, positions) IN
    /\ sess[s].pc = "rebuild"
    /\ Len(res.positions) <= MaxPos
    /\ executions' = res.executions
    /\ positions' = res.positions
    /\ sess' = [sess EXCEPT ![s] = Idle]
    /\ outcome' = Outcome("rebuild_positions", res.error, TRUE, {})
    /\ UNCHANGED <<funding_events, now, position_cache, fetch, last_sync_at>>

IngestQty ==
    \E r \in NewPayloads(1..MaxQty, {1}, {1}, {0}) : PersistExecutions(<<r>>)

NextRace ==
    \/ IngestQty
    \/ \E s \in Sessions : RebuildQuery(s)
    \/ \E s \in Sessions : RebuildCommit(s)

SpecRace == Init /\ [][NextRace]_vars

\* the closed Positions a fill was folded into
ClosedFrom(ps, i) == {p \in FoldedInto(ps, i) : ps[p].status = "closed"}

\* C5: two reconcile passes running concurrently never both create a closed
\* Position from the same fill
C5_NoFillClosedTwice ==
    \A i \in Ids(executions) : Cardinality(ClosedFrom(positions, i)) <= 1

\* ---- SpecSteps: two sessions run reconcile_symbol, one step per round of
\* reads and per commit, and the process can die between two steps
\* close_if_match up to the call of _finalize_position
CloseRead(s) ==
    /\ sess[s].pc = "idle"
    /\ \E p \in FirstOpen(positions) :
          LET x == IF p = 0 THEN [found |-> FALSE]
                   ELSE _aggregate_exits_for_position(executions, positions[p])
          IN  sess' = [sess EXCEPT ![s] =
                 IF x.found
                 THEN [Idle EXCEPT !.pc = "finalize", !.p = p,
                          !.row = Some(ClosedByMatch(executions, funding_events, positions[p], x))]
                 ELSE [Idle EXCEPT !.pc = "open"]]
    /\ outcome' = Outcome("close_if_match", FALSE, FALSE, {})
    /\ UNCHANGED <<executions, positions, funding_events, now, position_cache, fetch, last_sync_at>>

\* db.add(pos); db.commit() of _finalize_position
Finalize(s) ==
    /\ sess[s].pc = "finalize"
    /\ positions' = [positions EXCEPT ![sess[s].p] = Val(sess[s].row)]
    /\ sess' = [sess EXCEPT ![s].pc = "consume", ![s].row = None]
    /\ outcome' = Outcome("_finalize_position", FALSE, TRUE, {})
    /\ UNCHANGED <<executions, funding_events, now, position_cache, fetch, last_sync_at>>

\* _consume_execs_for_position, which loads the Position again, and its commit
Consume(s) ==
    /\ sess[s].pc = "consume"
    /\ executions' = _consume_execs_for_position(executions, positions[sess[s].p])
    /\ sess' = [sess EXCEPT ![s] = [Idle EXCEPT !.pc = "open"]]
    /\ outcome' = Outcome("_consume_execs_for_position", FALSE, TRUE, {})
    /\ UNCHANGED <<positions, funding_events, now, position_cache, fetch, last_sync_at>>

\* open_from_execs_if_missing up to the construction of the Position
OpenCheck(s) ==
    LET agg == _aggregate_entries_for_open(executions) IN
    /\ sess[s].pc = "open"
    /\ sess' = [sess EXCEPT ![s] =
          IF OpenPositions(positions) # {} \/ ~agg.found THEN Idle
          ELSE [Idle EXCEPT !.pc = "insert", !.row = Some(OpenedFromExecs(executions, agg))]]
    /\ outcome' = Outcome("open_from_execs_if_missing", FALSE, FALSE, {})
    /\ UNCHANGED <<executions, positions, funding_events, now, position_cache, fetch, last_sync_at>>

\* db.add(pos); db.commit() of open_from_execs_if_missing
OpenInsert(s) ==
    /\ sess[s].pc = "insert"
    /\ Len(positions) < MaxPos
    /\ positions' = Append(positions, Val(sess[s].row))
    /\ sess' = [sess EXCEPT ![s] = Idle]
    /\ outcome' = Outcome("open_from_execs_if_missing", FALSE, TRUE, {})
    /\ UNCHANGED <<executions, funding_events, now, position_cache, fetch, last_sync_at>>

\* the process dies: every session's uncommitted work is gone
Crash ==
    /\ \E s \in Sessions : sess[s].pc # "idle"
    /\ sess' = [s \in Sessions |-> Idle]
    /\ outcome' = Outcome("crash", FALSE, FALSE, {})
    /\ UNCHANGED <<executions, positions, funding_events, now, position_cache, fetch, last_sync_at>>

IngestSide ==
    \E r \in NewPayloads({1}, {1}, {1}, {0}) : PersistExecutions(<<r>>)

NextSteps ==
    \/ IngestSide
    \/ \E s \in Sessions : CloseRead(s)
    \/ \E s \in Sessions : Finalize(s)
    \/ \E s \in Sessions : Consume(s)
    \/ \E s \in Sessions : OpenCheck(s)
    \/ \E s \in Sessions : OpenInsert(s)
    \/ Crash

SpecSteps == Init /\ [][NextSteps]_vars

\* C6: under any interleaving of sessions at most one open Position row
\* exists for the (bot, symbol)
C6_AtMostOneOpenRow == Cardinality(OpenPositions(positions)) <= 1

\* C7: a crash leaves no closed Position with unconsumed fills and no
\* consumed fills with a still-open Position
C7_CloseAndConsumeAtomic ==
    outcome.op = "crash" =>
       \A p \in Ids(positions) :
          \A i \in positions[p].entry_rows \cup positions[p].exit_rows :
             executions[i].is_consumed <=> positions[p].status = "closed"

\* ---- SpecLive: ingestion and the three reconciliation entry points run one
\* at a time by one session; a pass that has started runs to its commit
\* the store a pass commits when it starts from the current store
PassResult(op, p) ==
    IF op = "rebuild_positions_orderlink"
    THEN LET r == rebuild_positions_orderlink(executions, positions, funding_events,
                                              now - StaleAfter)
         IN  [executions |-> r.executions, positions |-> r.positions]
    ELSE IF op = "rebuild_positions"
    THEN LET r == rebuild_positions(executions, positions)
         IN  [executions |-> r.executions, positions |-> r.positions]
    ELSE LET r == reconcile_symbol(executions, positions, funding_events, p)
         IN  [executions |-> r.executions, positions |-> r.positions]

StartPass(op) ==
    /\ sess[1].pc = "idle"
    /\ \E p \in FirstOpen(positions) :
          /\ Len(PassResult(op, p).positions) <= MaxPos
          /\ sess' = [sess EXCEPT ![1] = [Idle EXCEPT !.pc = op, !.row = Some(PassResult(op, p))]]
    /\ UNCHANGED <<executions, positions, funding_events, now, outcome, position_cache, fetch, last_sync_at>>

FinishPass ==
    LET res == Val(sess[1].row) IN
    /\ sess[1].pc \in ReconcileOps
    /\ executions' = res.executions
    /\ positions' = res.positions
    /\ sess' = [sess EXCEPT ![1] = Idle]
    /\ outcome' = Outcome(sess[1].pc, FALSE,
                          res.executions # executions \/ res.positions # positions, {})
    /\ UNCHANGED <<funding_events, now, position_cache, fetch, last_sync_at>>

IngestBetweenPasses == sess[1].pc = "idle" /\ IngestSide

NextLive ==
    \/ IngestBetweenPasses
    \/ \E op \in ReconcileOps : StartPass(op)
    \/ FinishPass

SpecLive == Init /\ [][NextLive]_vars /\ WF_vars(FinishPass)

\* a step that starts a pass of the given entry point
Started(op) == sess[1].pc = "idle" /\ sess'[1].pc = op

\* each entry point is started again and again, in any order
PassesKeepRunning ==
    /\ []<><<Started("rebuild_positions_orderlink")>>_vars
    /\ []<><<Started("rebuild_positions")>>_vars
    /\ []<><<Started("reconcile_symbol")>>_vars

\* unconsumed fills on the closing side of a Position, from its opening on,
\* total its quantity
OffsetStored(ex, pos) ==
    LET exit_side == IF pos.side = "long" THEN "sell" ELSE "buy"
    IN  QtyOf(ex, {i \in Unconsumed(ex) : ex[i].side = exit_side /\ ex[i].ts >= pos.opened_at})
           = pos.qty

\* C8: an open Position whose offsetting fills are stored is eventually closed,
\* as that same row, while the reconciliation passes keep running in any order
C8_OpenEventuallyClosed ==
    \A p \in 1..MaxPos :
       PassesKeepRunning =>
          ((p \in Ids(positions) /\ positions[p].status = "open"
               /\ OffsetStored(executions, positions[p]))
             ~> (p \in Ids(positions) /\ positions[p].status = "closed"))

\* ---- SpecPerm: a set of fills is stored into an empty database and one
\* reconciliation entry point runs over it; a second database receives the same
\* fills in another insertion order and the same entry point runs there
\* the table that holds the rows of ex inserted in the order f[1], f[2], ...
Permuted(ex, f) == [k \in Ids(ex) |-> ex[f[k]]]

InsertionOrders(n) == {f \in [1..n -> 1..n] : \A a, b \in 1..n : f[a] = f[b] => a = b}

\* the store one pass of an entry point commits on a database without Positions
PassOver(op, ex, fe, cutoff) ==
    TheOne({[executions |-> r.executions, positions |-> r.positions] :
              r \in {IF op = "rebuild_positions_orderlink"
                     THEN rebuild_positions_orderlink(ex, <<>>, fe, cutoff)
                     ELSE IF op = "rebuild_positions"
                     THEN rebuild_positions(ex, <<>>)
                     ELSE reconcile_symbol(ex, <<>>, fe, 0)}})

IngestPerm ==
    \E r \in NewPayloads({1}, 1..MaxPrice, {1}, {0}) : PersistExecutions(<<r>>)

\* one pass over the store, and the same pass over the other insertion order;
\* sess[2].row holds the Positions of the second database
ReconcilePermuted ==
    /\ executions # <<>>
    /\ positions = <<>>
    /\ \E op \in ReconcileOps, f \in InsertionOrders(Len(executions)) :
       \E other \in {Permuted(executions, f)} :
       \E here  \in {PassOver(op, executions, funding_events, now - StaleAfter)},
          there \in {PassOver(op, other, funding_events, now - StaleAfter)} :
          /\ Len(here.positions) <= MaxPos
          /\ executions' = here.executions
          /\ positions' = here.positions
          /\ sess' = [sess EXCEPT ![2] = [Idle EXCEPT !.row = Some(there.positions)]]
          /\ outcome' = Outcome(op, FALSE, here.positions # <<>>, {})
    /\ UNCHANGED <<funding_events, now, position_cache, fetch, last_sync_at>>

NextPerm ==
    \/ Tick
    \/ IngestPerm
    \/ ReconcilePermuted

SpecPerm == Init /\ [][NextPerm]_vars

\* side, qty, entry and exit VWAP and pnl of the closed rows of a positions table
ClosedSet(ps) ==
    {[side  |-> ps[p].side, qty |-> ps[p].qty,
      entry |-> ps[p].entry_price_vwap, exit |-> ps[p].exit_price_vwap,
      pnl   |-> ps[p].pnl_usdt] : p \in {q \in Ids(ps) : ps[q].status = "closed"}}

\* C11: the same fills stored in any insertion order and reconciled give the
\* same set of closed Positions (side, qty, entry and exit VWAP, pnl)
C11_OrderIndependent ==
    (outcome.op \in ReconcileOps /\ ~IsNone(sess[2].row)) =>
        ClosedSet(positions) = ClosedSet(Val(sess[2].row))

\* ---- SpecPartial: an entry is filled in two parts of quantity 1, with a
\* common order id or none, and then offset by one fill of quantity 2; fills
\* carry the clock of their arrival, and the three reconciliation entry points
\* run at any time in between
IngestEntryPart ==
    /\ Len(executions) < MaxPartial - 1
    /\ \E r \in NewPayloads({1}, 1..MaxPrice, {1}, OrderIds) :
          /\ r.ts = now
          /\ executions # <<>> => (r.side = executions[1].side
                                   /\ r.exchange_order_id = executions[1].exchange_order_id)
          /\ PersistUpTo(<<r>>, MaxPartial)

IngestExit ==
    /\ Len(executions) = MaxPartial - 1
    /\ \E r \in NewPayloads({MaxPartial - 1}, {MaxPrice}, {1}, {0}) :
          /\ r.ts = now
          /\ r.side # executions[1].side
          /\ PersistUpTo(<<r>>, MaxPartial)

NextPartial ==
    \/ Tick
    \/ IngestEntryPart
    \/ IngestExit
    \/ RebuildOrderlink
    \/ Rebuild
    \/ ReconcileSymbol

SpecPartial == Init /\ [][NextPartial]_vars

\* the entry parts and their offsetting fill are stored and all consumed
PartialsOffset ==
    /\ Len(executions) = MaxPartial
    /\ Unconsumed(executions) = {}

\* C13: same-side partial entry fills fully offset by one opposite fill of the
\* summed quantity end in one closed Position whose qty is the summed entry
\* quantity and whose entry_vwap is sum(price*qty)/sum(qty) over the entry
\* fills, with or without a common order id
C13_PartialEntriesSummed ==
    PartialsOffset =>
       LET entries == 1..(MaxPartial - 1) IN
       /\ Cardinality(ClosedPositions(positions)) = 1
       /\ \A p \in ClosedPositions(positions) :
             /\ positions[p].qty = QtyOf(executions, entries)
             /\ positions[p].entry_price_vwap =
                   Some((PxQtyOf(executions, entries) * Scale) \div QtyOf(executions, entries))

\* C23: a pass sets a fill's consumed flag only when it has folded the fill
\* into the aggregates of a Position it wrote in that pass
C23_ConsumedOnlyIfFolded ==
    [][\A i \in Ids(executions) :
          (~executions[i].is_consumed /\ executions'[i].is_consumed) =>
             \E p \in FoldedInto(positions', i) :
                p > Len(positions) \/ positions'[p] # positions[p]]_vars

\* ---- SpecFunding: fills stamped with the clock of their arrival, funding
\* events stamped now or earlier (the transaction log is fetched after the
\* fills), the three reconciliation entry points, over a clock long enough for
\* a Position to live across a funding time
TickLong == TickUpTo(MaxLongTs)

IngestNow ==
    \E r \in NewPayloads({1}, {1}, {1}, {0}) : r.ts = now /\ PersistExecutions(<<r>>)

NextFunding ==
    \/ TickLong
    \/ IngestNow
    \/ PersistFunding
    \/ RebuildOrderlink
    \/ Rebuild
    \/ ReconcileSymbol

SpecFunding == Init /\ [][NextFunding]_vars

\* closed Positions whose lifetime has the timestamp strictly inside
ClosedAround(ps, ts) ==
    {p \in ClosedPositions(ps) : ps[p].opened_at < ts /\ ts < Val(ps[p].closed_at)}

\* C17: a FundingEvent stamped strictly between opened_at and closed_at of
\* exactly one closed Position is part of that Position's stored funding
\* total, whether it was stored before or after the Position was closed
C17_FundingAttributed ==
    \A k \in Ids(funding_events) :
       \A p \in ClosedAround(positions, funding_events[k].ts) :
          ClosedAround(positions, funding_events[k].ts) = {p} =>
             positions[p].funding_usdt =
                FundingInWindow(funding_events, positions[p].opened_at,
                                Val(positions[p].closed_at))

\* ---- SpecWindows: as SpecFunding, with room for two round trips
IngestRoundTrips ==
    \E r \in NewPayloads({1}, {1}, {1}, {0}) : r.ts = now /\ PersistUpTo(<<r>>, MaxRoundTripExecs)

NextWindows ==
    \/ TickLong
    \/ IngestRoundTrips
    \/ PersistFunding
    \/ RebuildOrderlink
    \/ Rebuild
    \/ ReconcileSymbol

SpecWindows == Init /\ [][NextWindows]_vars

\* the Positions whose funding a FundingEvent row was counted in
CountedIn(ps, k) == {p \in Ids(ps) : k \in ps[p].funding_rows}

\* two Positions made of different fills
DisjointFills(ps, p, q) ==
    (ps[p].entry_rows \cup ps[p].exit_rows) \cap (ps[q].entry_rows \cup ps[q].exit_rows) = {}

\* C18: no FundingEvent is counted in the funding of two Positions of the
\* (bot, symbol), the Positions being made of different fills
C18_FundingCountedOnce ==
    \A k \in Ids(funding_events) :
       \A p, q \in CountedIn(positions, k) : DisjointFills(positions, p, q) => p = q

\* the groups the pairing stage left unpaired
Unpaired(agg, paired) == {i \in 1..Len(agg) : agg[i].rows \cap paired.used_row_ids = {}}

\* C21: the pairing stage of a full rebuild leaves a group unpaired only when
\* no later unpaired group of opposite side and equal quantity exists, groups
\* lying between the two groups of an earlier pair included
C21_EveryPartnerPaired ==
    [][outcome'.op = "rebuild_positions_orderlink" =>
         \A agg \in {Aggregate(executions)} :
         \A paired \in {PairGroups(executions, funding_events, agg, 1,
                                   [created |-> <<>>, used_row_ids |-> {}])} :
            \A i, j \in Unpaired(agg, paired) :
               ~(i < j /\ agg[i].side # agg[j].side /\ agg[i].qty = agg[j].qty)]_vars

\* ---- SpecBatch: reconciliation batches over two symbols.  The store is the
\* first symbol's; of the second symbol only whether its reconciliation raises
\* (a failed database write) is modelled
\* reconcile_symbol in a session that holds pending (added, unflushed) fills:
\* queries read the committed rows only (autoflush=False); the first commit,
\* in _finalize_position or in open_from_execs_if_missing, writes the pending
\* fills, and what runs after it reads them
reconcile_symbol_pending(ex, pending, ps, fe, p) ==
    TheOne({IF x.found
            THEN TheOne({TheOne({[executions |-> ex1,
                                  positions  |-> open_from_execs_if_missing(
                                                    ex1, [ps EXCEPT ![p] = pos]).positions,
                                  commits    |-> TRUE] :
                                   ex1 \in {_consume_execs_for_position(ex \o pending, pos)}}) :
                           pos \in {ClosedByMatch(ex, fe, ps[p], x)}})
            ELSE TheOne({[executions |-> IF o.opened THEN ex \o pending ELSE ex,
                          positions  |-> o.positions,
                          commits    |-> o.opened] :
                           o \in {open_from_execs_if_missing(ex, ps)}}) :
              x \in {IF p = 0 THEN [found |-> FALSE]
                     ELSE _aggregate_exits_for_position(ex, ps[p])}})

\* sync_recent_closures: the fetched fill r of the first symbol is db.add()ed
\* and stays pending; reconcile_symbol runs per affected symbol, in the
\* iteration order of a set; the last db.commit() is reached only if no
\* symbol raised, and what no commit has written is lost
sync_recent_closures(ex, ps, fe, r, p, first_symbol_first, other_raises) ==
    TheOne({IF ~other_raises
            THEN [executions |-> IF res.commits THEN res.executions
                                 ELSE ex \o _persist_execution(ex, <<r>>),
                  positions |-> res.positions, error |-> FALSE]
            ELSE IF first_symbol_first /\ res.commits
            THEN [executions |-> res.executions, positions |-> res.positions, error |-> TRUE]
            ELSE [executions |-> ex, positions |-> ps, error |-> TRUE] :
              res \in {reconcile_symbol_pending(ex, _persist_execution(ex, <<r>>), ps, fe, p)}})

\* rebuild_positions_orderlink over the unconsumed rows of both symbols: one
\* loop over the symbols, db.flush() per Position, one db.commit() at the end
rebuild_positions_orderlink_symbols(ex, ps, fe, cutoff, other_raises) ==
    IF other_raises THEN [executions |-> ex, positions |-> ps, error |-> TRUE]
    ELSE [error |-> FALSE] @@ rebuild_positions_orderlink(ex, ps, fe, cutoff)

SyncRecentClosures ==
    \E r \in NewPayloads(1..MaxQty, {1}, {1}, {0}), p \in FirstOpen(positions),
       first_symbol_first \in BOOLEAN, other_raises \in BOOLEAN :
    \E res \in {sync_recent_closures(executions, positions, funding_events, r, p,
                                     first_symbol_first, other_raises)} :
       /\ Len(res.executions) <= MaxExecs
       /\ Len(res.positions) <= MaxPos
       /\ executions' = res.executions
       /\ positions' = res.positions
       /\ outcome' = Outcome("sync_recent_closures", res.error,
                             res.executions # executions \/ res.positions # positions,
                             {r.exchange_exec_id})
       /\ last_sync_at' = IF res.error THEN last_sync_at ELSE Some(now)
       /\ UNCHANGED <<funding_events, now, sess, position_cache, fetch>>

RebuildOrderlinkSymbols ==
    \E other_raises \in BOOLEAN :
    \E res \in {rebuild_positions_orderlink_symbols(executions, positions, funding_events,
                                                    now - StaleAfter, other_raises)} :
       /\ Len(res.positions) <= MaxPos
       /\ executions' = res.executions
       /\ positions' = res.positions
       /\ outcome' = Outcome("rebuild_positions_orderlink", res.error,
                             res.executions # executions \/ res.positions # positions, {})
       /\ UNCHANGED <<funding_events, now, sess, position_cache, fetch, last_sync_at>>

NextBatch ==
    \/ Tick
    \/ IngestQty
    \/ SyncRecentClosures
    \/ RebuildOrderlinkSymbols

SpecBatch == Init /\ [][NextBatch]_vars

\* the store the batch commits for the first symbol when no symbol raises
ReconciledAlone(op, exec_ids, ex, ps, ex2, ps2) ==
    IF op = "sync_recent_closures"
    THEN \E r \in NewPayloads(1..MaxQty, {1}, {1}, {0}), p \in FirstOpen(ps) :
            LET res == sync_recent_closures(ex, ps, funding_events, r, p, TRUE, FALSE)
            IN  r.exchange_exec_id \in exec_ids /\ ps2 = res.positions /\ ex2 = res.executions
    ELSE LET res == rebuild_positions_orderlink(ex, ps, funding_events, now - StaleAfter)
         IN  ps2 = res.positions /\ ex2 = res.executions

\* C19: when the reconciliation of one symbol of a batch fails, the other
\* symbol of the batch is still reconciled and its result committed
C19_SymbolIsolation ==
    [][(outcome'.op \in {"sync_recent_closures", "rebuild_positions_orderlink"}
          /\ outcome'.error)
         => ReconciledAlone(outcome'.op, outcome'.exec_ids, executions, positions,
                            executions', positions')]_vars

\* a stored fill that offsets the whole of an open Position
ClosingFill(row, pos) ==
    /\ row.side = (IF pos.side = "long" THEN "sell" ELSE "buy")
    /\ row.qty >= pos.qty
    /\ row.ts >= pos.opened_at

\* C29: the fill a sync fetches and stores is seen by the reconcile_symbol call
\* of the same sync: an open Position whose closing fill this sync stored is
\* closed when the sync returns
C29_FetchedFillCloses ==
    [][\A p \in OpenPositions(positions) :
          (/\ outcome'.op = "sync_recent_closures"
           /\ ~outcome'.error
           /\ Len(executions') = Len(executions) + 1
           /\ ClosingFill(executions'[Len(executions')], positions[p]))
          => positions'[p].status = "closed"]_vars

\* ---- SpecFeed: fills stored by the syncs, reconcile_symbol, and the
\* websocket callbacks for execution and position messages
\* main._on_position on a position row reporting `size`: the row goes into
\* position_cache; no database session is opened
OnPosition ==
    \E size \in 0..MaxQty :
       /\ position_cache' = Some([size |-> size, ts |-> now])
       /\ outcome' = Outcome("_on_position", FALSE, FALSE, {})
       /\ UNCHANGED <<executions, positions, funding_events, now, sess, fetch, last_sync_at>>

NextFeed ==
    \/ Tick
    \/ IngestSide
    \/ ReconcileSymbol
    \/ OnExec
    \/ OnPosition

SpecFeed == Init /\ [][NextFeed]_vars

\* C20: when the live feed delivers a position update whose size is zero
\* while a Position is open, a reconcile of the (bot, symbol) is run in
\* response: the handling of the message leaves the store as reconcile_symbol
\* leaves it
C20_ZeroSizeReconciles ==
    [][(/\ outcome'.op = "_on_position"
        /\ Val(position_cache').size = 0
        /\ OpenPositions(positions) # {}) =>
          \E p \in FirstOpen(positions) :
             LET res == reconcile_symbol(executions, positions, funding_events, p)
             IN  positions' = res.positions /\ executions' = res.executions]_vars


\* ---- SpecSlip: fills of quantity 1 at different prices, with a common
\* order id or none, arriving in (ts, id) order within one clock tick, and the
\* full rebuild; room for an entry and an exit of two fills each
\* metrics._slippage_entry_exit_usdt(pos): (entry_slip, exit_slip) of a row.
\* The rebuild stores them in slippage_entry_usdt / slippage_exit_usdt right
\* after constructing the row, so the stored columns of a Position built by
\* the rebuild are this function of the row
_slippage_entry_exit_usdt(pos) ==
    LET diff_entry == Val(pos.entry_price_vwap) - Val(pos.entry_price_best)
        diff_exit  == Val(pos.exit_price_vwap) - Val(pos.exit_price_best)
    IN  [entry_slip |-> IF Truthy(pos.entry_price_vwap) /\ Truthy(pos.entry_price_best) /\ pos.qty # 0
                        THEN (IF pos.side = "long" THEN diff_entry * pos.qty
                              ELSE (0 - diff_entry) * pos.qty)
                        ELSE 0,
         exit_slip  |-> IF Truthy(pos.exit_price_vwap) /\ Truthy(pos.exit_price_best) /\ pos.qty # 0
                        THEN (IF pos.side = "long" THEN diff_exit * pos.qty
                              ELSE (0 - diff_exit) * pos.qty)
                        ELSE 0]

IngestSplit ==
    \E r \in NewPayloads({1}, 1..MaxPrice, {1}, OrderIds) :
       r.ts = now /\ PersistUpTo(<<r>>, MaxRoundTripExecs)

NextSlip ==
    \/ IngestSplit
    \/ RebuildOrderlink

SpecSlip == Init /\ [][NextSlip]_vars

\* C26: every closed Position the rebuild builds has entry slippage >= 0 and
\* exit slippage >= 0, long or short (best price = lowest fill price of a buy
\* side, highest of a sell side, so a VWAP off the best price is a cost)
C26_SlippageIsCost ==
    \A p \in ClosedPositions(positions) :
       /\ _slippage_entry_exit_usdt(positions[p]).entry_slip >= 0
       /\ _slippage_entry_exit_usdt(positions[p]).exit_slip >= 0

\* ---- SpecMalformed: fills whose execQty or execPrice did not parse are
\* stored with 0.0 (_f), next to well-formed fills; the two rebuilds
IngestMalformed ==
    \E r \in NewPayloads(0..1, 0..1, {1}, {0}) : PersistExecutions(<<r>>)

NextMalformed ==
    \/ Tick
    \/ IngestMalformed
    \/ RebuildOrderlink
    \/ Rebuild

SpecMalformed == Init /\ [][NextMalformed]_vars

\* unconsumed fills stored with quantity 0 or price 0
Malformed(ex) == {i \in Unconsumed(ex) : ex[i].qty = 0 \/ ex[i].price = 0}

\* C27: a stored fill with zero quantity or zero price never makes
\* rebuild_positions_orderlink or rebuild_positions raise
C27_MalformedFillNoRaise ==
    [][(outcome'.op \in {"rebuild_positions_orderlink", "rebuild_positions"}
          /\ Malformed(executions) # {}) => ~outcome'.error]_vars

\* ---- SpecPaths: the two closing paths over the same committed fills and
\* funding events of one (bot, symbol).  The store is the one the full rebuild
\* commits; sess[2].row holds the Positions the incremental path commits when
\* reconcile_symbol is called on the same fills until it changes nothing
MaxPasses == 4

\* reconcile_symbol called n times in a row
RECURSIVE Incremental(_, _, _, _)
Incremental(ex, ps, fe, n) ==
    IF n = 0 THEN [executions |-> ex, positions |-> ps]
    ELSE TheOne({Incremental(r.executions, r.positions, fe, n - 1) :
                   r \in {reconcile_symbol(ex, ps, fe, Min(FirstOpen(ps)))}})

IngestFee ==
    \E r \in NewPayloads({1}, 1..MaxPrice, Fees, {0}) : PersistExecutions(<<r>>)

CloseBothWays ==
    /\ executions # <<>>
    /\ positions = <<>>
    /\ \E here  \in {rebuild_positions_orderlink(executions, positions, funding_events,
                                                 now - StaleAfter)},
          there \in {Incremental(executions, positions, funding_events, MaxPasses)} :
          /\ Len(here.positions) <= MaxPos
          /\ executions' = here.executions
          /\ positions' = here.positions
          /\ sess' = [sess EXCEPT ![2] = [Idle EXCEPT !.row = Some(there.positions)]]
          /\ outcome' = Outcome("rebuild_positions_orderlink", FALSE, here.positions # <<>>, {})
    /\ UNCHANGED <<funding_events, now, position_cache, fetch, last_sync_at>>

NextPaths ==
    \/ Tick
    \/ IngestFee
    \/ PersistFunding
    \/ CloseBothWays

SpecPaths == Init /\ [][NextPaths]_vars

\* what the claim compares of the closed Positions of a store
ClosedRows(ps) ==
    {[side |-> ps[p].side, qty |-> ps[p].qty,
      entry_price_vwap |-> ps[p].entry_price_vwap, exit_price_vwap |-> ps[p].exit_price_vwap,
      exit_price_best |-> ps[p].exit_price_best,
      fee_open_usdt |-> ps[p].fee_open_usdt, fee_close_usdt |-> ps[p].fee_close_usdt,
      funding_usdt |-> ps[p].funding_usdt, pnl_usdt |-> ps[p].pnl_usdt] :
        p \in ClosedPositions(ps)}

\* C22: over the same fills and funding events the incremental path and the
\* full rebuild end with the same closed Positions: as many, and each with the
\* same side, qty, entry and exit VWAP, exit best price, fees, funding and pnl
C22_PathsAgree ==
    (outcome.op = "rebuild_positions_orderlink" /\ ~IsNone(sess[2].row)) =>
        /\ Cardinality(ClosedPositions(positions)) = Cardinality(ClosedPositions(Val(sess[2].row)))
        /\ ClosedRows(positions) = ClosedRows(Val(sess[2].row))

\* ---- SpecFetch: sync_recent_closures step by step through its paginated
\* fetches, for one symbol.  The exchange answers every page request with any
\* cursor it likes, none (0) included, and with at most one new fill in all;
\* the transaction-log pages carry no funding rows
MaxPages == 2

Cursors == {1, 2}

\* sync_recent_closures is called: end_ms, start_ms, then the symbol discovery
StartSync ==
    /\ fetch.pc = "idle"
    /\ fetch' = [FetchIdle EXCEPT !.pc = "symbols"]
    /\ outcome' = Outcome("sync_start", FALSE, FALSE, {})
    /\ UNCHANGED <<executions, positions, funding_events, now, sess, position_cache, last_sync_at>>

\* _load_all_linear_usdt_symbols: one iteration of `while True`
LoadSymbolsPage ==
    /\ fetch.pc = "symbols"
    /\ \E next \in Cursors \cup {0} :
          fetch' = IF next = 0 THEN [fetch EXCEPT !.pc = "executions", !.cursor = 0, !.page = 0]
                   ELSE [fetch EXCEPT !.cursor = next]
    /\ outcome' = Outcome("instruments_info", FALSE, FALSE, {})
    /\ UNCHANGED <<executions, positions, funding_events, now, sess, position_cache, last_sync_at>>

\* the fills a page of the execution list can carry
FetchedFills ==
    IF fetch.items # <<>> \/ Len(executions) >= MaxExecs THEN {<<>>}
    ELSE {<<>>} \cup {<<r>> : r \in NewPayloads({1}, {1}, {1}, {0})}

\* _fetch_executions: one iteration of `for _ in range(max_pages)`
FetchExecutionsPage ==
    /\ fetch.pc = "executions"
    /\ \E next \in Cursors \cup {0}, lst \in FetchedFills :
          fetch' = IF next = 0 \/ fetch.page + 1 >= MaxPages
                   THEN [fetch EXCEPT !.pc = "funding", !.cursor = 0, !.page = 0,
                                      !.items = @ \o lst]
                   ELSE [fetch EXCEPT !.cursor = next, !.page = @ + 1, !.items = @ \o lst]
    /\ outcome' = Outcome("executions", FALSE, FALSE, {})
    /\ UNCHANGED <<executions, positions, funding_events, now, sess, position_cache, last_sync_at>>

\* _fetch_funding_tx: one iteration of `for _ in range(max_pages)`
FetchFundingPage ==
    /\ fetch.pc = "funding"
    /\ \E next \in Cursors \cup {0} :
          fetch' = IF next = 0 \/ fetch.page + 1 >= MaxPages
                   THEN [fetch EXCEPT !.pc = "done", !.cursor = 0, !.page = 0]
                   ELSE [fetch EXCEPT !.cursor = next, !.page = @ + 1]
    /\ outcome' = Outcome("transaction_log", FALSE, FALSE, {})
    /\ UNCHANGED <<executions, positions, funding_events, now, sess, position_cache, last_sync_at>>

\* the rest of sync_recent_closures: persist, reconcile, commit, return
FinishSync ==
    /\ fetch.pc = "done"
    /\ fetch' = FetchIdle
    /\ IF fetch.items = <<>>
       THEN /\ outcome' = Outcome("sync_recent_closures", FALSE, FALSE, {})
            /\ last_sync_at' = Some(now)
            /\ UNCHANGED <<executions, positions>>
       ELSE \E p \in FirstOpen(positions) :
            \E res \in {sync_recent_closures(executions, positions, funding_events,
                                             fetch.items[1], p, TRUE, FALSE)} :
               /\ executions' = res.executions
               /\ positions' = res.positions
               /\ last_sync_at' = IF res.error THEN last_sync_at ELSE Some(now)
               /\ outcome' = Outcome("sync_recent_closures", res.error,
                                     res.executions # executions \/ res.positions # positions,
                                     {fetch.items[1].exchange_exec_id})
    /\ UNCHANGED <<funding_events, now, sess, position_cache>>

NextFetch ==
    \/ Tick
    \/ StartSync
    \/ LoadSymbolsPage
    \/ FetchExecutionsPage
    \/ FetchFundingPage
    \/ FinishSync

\* the sync runs in its own thread: each page request returns and the loop
\* takes its next step
SpecFetch ==
    /\ Init /\ [][NextFetch]_vars
    /\ WF_vars(LoadSymbolsPage) /\ WF_vars(FetchExecutionsPage)
    /\ WF_vars(FetchFundingPage) /\ WF_vars(FinishSync)

\* C28: every paginated fetch of a sync stops after a bounded number of page
\* requests even if every response carries a next-page cursor, so a sync that
\* has started returns
C28_SyncTerminates == (fetch.pc = "symbols") ~> (fetch.pc = "idle")

\* ---- SpecOverlap: syncs whose transaction-log window starts one hour (one
\* tick) before the previous sync.  The exchange pays funding once per funding
\* time; fills are stamped with the clock of their arrival
MaxFundingRows == 2

SyncBuffer == 1

\* the funding payments of the symbol the transaction log lists for [a, b]
FundingPayments(a, b) == {t \in a..b : t >= 1 /\ IsFundingClock(t)}

\* _persist_funding_event for each fetched row, in the order of the log
RECURSIVE PersistedFunding(_)
PersistedFunding(S) ==
    IF S = {} THEN <<>>
    ELSE <<[ts |-> Min(S), amount_usdt |-> 1]>> \o PersistedFunding(S \ {Min(S)})

\* sync_recent_closures when no new fill is reported: the funding rows of
\* [last_sync_at - 1h, now] are stored, last_sync_at is set, db.commit()
SyncFunding ==
    /\ \E start_ms \in {IF IsNone(last_sync_at) THEN 1 ELSE Val(last_sync_at) - SyncBuffer} :
       \E fund_rows \in {PersistedFunding(FundingPayments(start_ms, now))} :
          /\ Len(funding_events) + Len(fund_rows) <= MaxFundingRows
          /\ funding_events' = funding_events \o fund_rows
          /\ outcome' = Outcome("sync_recent_closures", FALSE, fund_rows # <<>>, {})
    /\ last_sync_at' = Some(now)
    /\ UNCHANGED <<executions, positions, now, sess, position_cache, fetch>>

NextOverlap ==
    \/ TickLong
    \/ IngestNow
    \/ SyncFunding
    \/ RebuildOrderlink
    \/ ReconcileSymbol

SpecOverlap == Init /\ [][NextOverlap]_vars

\* C30: a funding payment the exchange returns to two syncs with overlapping
\* windows is counted once in the funding and pnl of the Position whose window
\* contains it
C30_PaymentCountedOnce ==
    \A p \in ClosedPositions(positions) :
       \A j, k \in positions[p].funding_rows :
          funding_events[j].ts = funding_events[k].ts => j = k
=============================================================================
